---------------------------- MODULE Spec2Model ----------------------------
(***************************************************************************)
(* uStreamer HTTP server (src/src/http.c): the exposed snapshot, the       *)
(* refresh ticker, the /stream client registry and writer, the one-shot    *)
(* handlers and the server lifecycle, together with the capture thread     *)
(* that publishes frames into the shared stream slot.                      *)
(*                                                                         *)
(* Two threads run: the event loop (variable pc is its position) and the   *)
(* producer.  Every libevent callback runs to completion on the loop       *)
(* thread, so callbacks are atomic with respect to each other; the refresh *)
(* callback is split at each point where it touches the shared stream      *)
(* slot or its mutex, so that the producer interleaves with it.            *)
(*                                                                         *)
(* Spec is the whole server.  The other specifications run a part of it,   *)
(* with the same actions: SpecSnapshot the producer, the ticker and the    *)
(* one-shot handlers; SpecTicks and SpecStream the producer, the ticker    *)
(* and the /stream callbacks (SpecStream with the fairness of the event    *)
(* loop); SpecIdle, SpecClients and SpecCounted the ticker and the         *)
(* /stream callbacks with a producer that never publishes: the first two   *)
(* over a longer client list, the last two with history variables.         *)
(***************************************************************************)
EXTENDS Integers, Sequences, FiniteSets, TLC

(* ------------------------------ bounds --------------------------------- *)

\* Number of stream_client_t records that can be allocated at once.
MaxClients == 2

\* The same, where only the client list and the writer run.
MaxRegistry == 3

\* Number of calls of _expose_blank_picture in a row.
MaxCalls == 3

\* Number of fanouts counted for one client.
MaxFanouts == 3

(* ------------------------- program constants --------------------------- *)

\* data/blank.h: the embedded blank JPEG (scaled down: two bytes, 6x4).
BLANK_JPG_DATA == <<8, 9>>

BLANK_JPG_SIZE == Len(BLANK_JPG_DATA)

BLANK_JPG_WIDTH == 6

BLANK_JPG_HEIGHT == 4

\* sizeof(*picture.data): the picture buffer is a byte buffer.
SizeofData == 1

\* HTTP_OK
HTTP_OK == 200

\* Content of memory that realloc() added and nobody wrote yet.
Garbage == -1

NULL == 0

ClientIds == 1..MaxClients

RegistryIds == 1..MaxRegistry

(* ------------------------------ helpers -------------------------------- *)

Max(a, b) == IF a >= b THEN a ELSE b

\* A_REALLOC(data, n): the old content is kept, the added tail is unwritten.
A_REALLOC(data, n) ==
    [i \in 1..n |-> IF i <= Len(data) THEN data[i] ELSE Garbage]

\* memcpy(dst, src, n): the first n bytes of dst are overwritten.
memcpy(dst, src, n) ==
    [i \in 1..Max(Len(dst), n) |-> IF i <= n THEN src[i] ELSE dst[i]]

\* evbuffer_add(buf, data, n): the first n bytes of data.
evbuffer_add(data, n) == SubSeq(data, 1, n)

(* --------------------------- exposed snapshot -------------------------- *)

\* A_CALLOC(exposed, 1)
CallocExposed ==
    [picture |-> [data |-> <<>>, size |-> 0, allocated |-> 0],
     width |-> 0, height |-> 0, online |-> FALSE]

\* Mutant: the test of the online flag is missing.
BlankGuardSizeOnly(e) == e.picture.size = 0

\* Mutant: the blank picture is installed only when online.
BlankGuardOnlineOnly(e) == e.online

BlankGuard(e) == e.online \/ e.picture.size = 0

_expose_blank_picture(e) ==
    IF BlankGuard(e)
    THEN LET grown == IF e.picture.allocated < BLANK_JPG_SIZE
                      THEN [data |-> A_REALLOC(e.picture.data, BLANK_JPG_SIZE),
                            allocated |-> BLANK_JPG_SIZE]
                      ELSE [data |-> e.picture.data,
                            allocated |-> e.picture.allocated]
         IN [picture |-> [data |-> memcpy(grown.data, BLANK_JPG_DATA,
                                          BLANK_JPG_SIZE * SizeofData),
                          size |-> BLANK_JPG_SIZE,
                          allocated |-> grown.allocated],
             width |-> BLANK_JPG_WIDTH,
             height |-> BLANK_JPG_HEIGHT,
             online |-> FALSE]
    ELSE e

\* Mutant: the bytes are copied, the resolution is not.
ExposeStaleResolution(e, s) ==
    LET grown == IF e.picture.allocated < s.picture.allocated
                 THEN [data |-> A_REALLOC(e.picture.data, s.picture.allocated),
                       allocated |-> s.picture.allocated]
                 ELSE [data |-> e.picture.data,
                       allocated |-> e.picture.allocated]
    IN [picture |-> [data |-> memcpy(grown.data, s.picture.data,
                                     s.picture.size * SizeofData),
                     size |-> s.picture.size,
                     allocated |-> grown.allocated],
        width |-> e.width,
        height |-> e.height,
        online |-> TRUE]

\* Mutant: the buffer is not grown before the copy.
ExposeNoGrow(e, s) ==
    [picture |-> [data |-> memcpy(e.picture.data, s.picture.data,
                                  s.picture.size * SizeofData),
                  size |-> s.picture.size,
                  allocated |-> e.picture.allocated],
     width |-> s.width,
     height |-> s.height,
     online |-> TRUE]

_expose_new_picture(e, s) ==
    LET grown == IF e.picture.allocated < s.picture.allocated
                 THEN [data |-> A_REALLOC(e.picture.data, s.picture.allocated),
                       allocated |-> s.picture.allocated]
                 ELSE [data |-> e.picture.data,
                       allocated |-> e.picture.allocated]
    IN [picture |-> [data |-> memcpy(grown.data, s.picture.data,
                                     s.picture.size * SizeofData),
                     size |-> s.picture.size,
                     allocated |-> grown.allocated],
        width |-> s.width,
        height |-> s.height,
        online |-> TRUE]

(* ------------------------------ producer ------------------------------- *)

\* What the capture thread publishes: an offline frame (size 0) and two
\* pictures that differ in every byte, in size, in capacity and in resolution.
Publications ==
    { [data |-> <<>>,        allocated |-> 1, width |-> 3, height |-> 2],
      [data |-> <<1>>,       allocated |-> 1, width |-> 3, height |-> 2],
      [data |-> <<2, 3, 4>>, allocated |-> 3, width |-> 5, height |-> 7] }

\* The stream slot before the first publication.
StreamInit ==
    [picture |-> [data |-> <<>>, size |-> 0, allocated |-> 0],
     width |-> 0, height |-> 0, updated |-> FALSE]

(* ------------------------------ clients -------------------------------- *)

\* A stream_client_t that is not allocated.
NoClient ==
    [alive |-> FALSE, need_initial |-> FALSE, prev |-> NULL, next |-> NULL,
     conn |-> FALSE, write_cb |-> FALSE, out |-> <<>>, preambles |-> 0]

\* An evbuffer that holds nothing (also the body of a reply sent with NULL).
EmptyBody ==
    [type |-> "", bytes |-> <<>>, width |-> 0, height |-> 0, online |-> ""]

NoResponse ==
    [status |-> 0, reason |-> "", headers |-> <<>>, body |-> EmptyBody]

VARIABLES
    stream,          \* the producer's frame slot (struct stream_t)
    mutex,           \* stream->mutex: "free", or "loop" while the loop thread
                     \* holds it
    exposed,         \* run->exposed
    stream_clients,  \* run->stream_clients: head of the client list
    clients,         \* the stream_client_t records, by address; out is what
                     \* the last write callback handed to the transport,
                     \* preambles the number of preambles written so far
    pc,              \* position of the event-loop thread
    response,        \* the reply of the handler that just ran
    unlocked,        \* fields of the stream slot the loop thread has touched
                     \* without holding the mutex
    adopted,         \* size of the frame the last tick took, or -1 if none
    fresh,           \* progress of the ticker since the last publication
    last_error,      \* history: where in the list the client stood that the
                     \* error callback ran for last, and whether its first
                     \* write was armed and had not run
    fanouts,         \* history: per client, the fanouts that armed or found
                     \* it armed since it attached
    parts,           \* history: per client, the parts written to it
    ticks            \* history: parity of the number of timer firings

vars == <<stream, mutex, exposed, stream_clients, clients, pc, response,
          unlocked, adopted, fresh, last_error, fanouts, parts, ticks>>

\* The history variables.  The specifications that do not record a history
\* leave them as they are.
history == <<last_error, fanouts, parts, ticks>>

\* No error callback has run.
NoError == [place |-> "none", early |-> FALSE]

Init ==
    /\ stream = StreamInit
    /\ mutex = "free"
    /\ exposed = _expose_blank_picture(CallocExposed)
    /\ stream_clients = NULL
    /\ clients = [c \in ClientIds |-> NoClient]
    /\ pc = "idle"
    /\ response = NoResponse
    /\ unlocked = {}
    /\ adopted = -1
    /\ fresh = "none"
    /\ last_error = NoError
    /\ fanouts = [c \in ClientIds |-> 0]
    /\ parts = [c \in ClientIds |-> 0]
    /\ ticks = 0

(* ------------------------------ producer ------------------------------- *)

TickStart(f) == IF f = "published" THEN "ticking" ELSE f

TickEnd(f) == IF f = "ticking" THEN "ticked" ELSE f

\* The capture thread locks the stream mutex, writes picture, width and
\* height, sets updated and unlocks.  Its critical section touches nothing
\* but the slot, and the loop thread can look into the middle of it only by
\* reading updated without the mutex, where it sees the old or the new value;
\* so the critical section is one step, taken when the loop thread does not
\* hold the mutex.
ProducerPublish(p) ==
    /\ pc \notin {"stopped", "destroyed"}
    /\ mutex = "free"
    /\ stream' = [picture |-> [data |-> p.data, size |-> Len(p.data),
                               allocated |-> p.allocated],
                  width |-> p.width, height |-> p.height, updated |-> TRUE]
    /\ fresh' = "published"
    /\ UNCHANGED <<mutex, exposed, stream_clients, clients, pc, response,
                   unlocked, adopted>>

(* --------------------------- refresh ticker ---------------------------- *)

\* The number of client records: no walk of the list takes more steps.
Records(cl) == Len(cl)

RECURSIVE QueueFrom(_, _, _)
QueueFrom(cl, c, fuel) ==
    IF c = NULL \/ fuel = 0
    THEN cl
    ELSE QueueFrom([cl EXCEPT ![c].write_cb = IF cl[c].conn THEN TRUE ELSE @],
                   cl[c].next, fuel - 1)

RECURSIVE ReachFrom(_, _, _)
ReachFrom(cl, c, fuel) ==
    IF c = NULL \/ fuel = 0 THEN {} ELSE {c} \cup ReachFrom(cl, cl[c].next, fuel - 1)

\* Mutant: the loop stops after the first client.
QueueHeadOnly(cl, head) == QueueFrom(cl, head, 1)

\* for (client = stream_clients; client != NULL; client = client->next)
_http_queue_send_stream(cl, head) == QueueFrom(cl, head, Records(cl))

\* The loop thread touches these fields of the stream slot: those it touches
\* while it does not hold the mutex are recorded.
Touch(fields) == IF mutex = "loop" THEN unlocked ELSE unlocked \cup fields

\* Mutant: no fanout without a new frame.
NoKeepAlive(e) == FALSE

\* else if (!server->run->exposed->online)
Offline(e) == ~e.online

\* if (stream->updated) ... else if (!exposed->online) ...
refresh_check ==
    /\ pc = "idle"
    /\ unlocked' = Touch({"updated"})
    /\ IF stream.updated
       THEN /\ pc' = "lock"
            /\ fresh' = TickStart(fresh)
            /\ UNCHANGED clients
       ELSE /\ pc' = "idle"
            /\ fresh' = TickEnd(TickStart(fresh))
            /\ clients' = IF Offline(exposed)
                          THEN _http_queue_send_stream(clients, stream_clients)
                          ELSE clients
    /\ UNCHANGED <<stream, mutex, exposed, stream_clients, response, adopted>>

\* LOCK_STREAM
refresh_lock ==
    /\ pc = "lock"
    /\ mutex = "free"
    /\ mutex' = "loop"
    /\ pc' = "locked"
    /\ UNCHANGED <<stream, exposed, stream_clients, clients, response, unlocked,
                   adopted, fresh>>

\* Mutant: an empty frame is adopted like any other.
AlwaysOnline(s) == TRUE

\* if (stream->picture.size > 0) { // If online
StreamOnline(s) == s.picture.size > 0

\* Mutant: updated is not cleared.
UnlockKeepsUpdated(s) == s

\* UNLOCK_STREAM: { server->run->stream->updated = false; A_PTHREAD_M_UNLOCK }
UNLOCK_STREAM(s) == [s EXCEPT !.updated = FALSE]

\* if (online) { _expose_new_picture; UNLOCK_STREAM } else { UNLOCK_STREAM; ... }
refresh_locked ==
    /\ pc = "locked"
    /\ adopted' = stream.picture.size
    /\ IF StreamOnline(stream)
       THEN /\ exposed' = _expose_new_picture(exposed, stream)
            /\ unlocked' = Touch({"picture", "width", "height", "updated"})
            /\ pc' = "queue"
       ELSE /\ exposed' = exposed
            /\ unlocked' = Touch({"picture", "updated"})
            /\ pc' = "blank"
    /\ stream' = UNLOCK_STREAM(stream)
    /\ mutex' = "free"
    /\ UNCHANGED <<stream_clients, clients, response, fresh>>

\* else-branch, after UNLOCK_STREAM: _expose_blank_picture(server)
refresh_blank ==
    /\ pc = "blank"
    /\ exposed' = _expose_blank_picture(exposed)
    /\ pc' = "queue"
    /\ UNCHANGED <<stream, mutex, stream_clients, clients, response, unlocked,
                   adopted, fresh>>

\* _http_queue_send_stream(server) at the end of the updated branch
refresh_queue ==
    /\ pc = "queue"
    /\ clients' = _http_queue_send_stream(clients, stream_clients)
    /\ pc' = "idle"
    /\ fresh' = TickEnd(fresh)
    /\ UNCHANGED <<stream, mutex, exposed, stream_clients, response, unlocked,
                   adopted>>

(* --------------------------- one-shot handlers ------------------------- *)

Methods == {"GET", "HEAD"}

\* Mutant: the handler does not look at the request method.
NeverHead(method) == FALSE

PROCESS_HEAD_REQUEST(method) == method = "HEAD"

\* evhttp_send_reply(request, HTTP_OK, "OK", NULL)
HeadReply ==
    [status |-> HTTP_OK, reason |-> "OK", headers |-> <<>>, body |-> EmptyBody]

Reply(r) ==
    /\ response' = r
    /\ pc' = "replied"
    /\ UNCHANGED <<stream, mutex, exposed, stream_clients, clients, unlocked,
                   adopted, fresh>>

_http_callback_root(method) ==
    /\ pc = "idle"
    /\ IF PROCESS_HEAD_REQUEST(method)
       THEN Reply(HeadReply)
       ELSE Reply([status |-> HTTP_OK, reason |-> "OK",
                   headers |-> << <<"Content-Type", "text/html">> >>,
                   body |-> [EmptyBody EXCEPT !.type = "html"]])

\* (exposed->online ? "true" : "false")
BoolText(b) == IF b THEN "true" ELSE "false"

_http_callback_ping(method) ==
    /\ pc = "idle"
    /\ IF PROCESS_HEAD_REQUEST(method)
       THEN Reply(HeadReply)
       ELSE Reply([status |-> HTTP_OK, reason |-> "OK",
                   headers |-> << <<"Content-Type", "application/json">> >>,
                   body |-> [type |-> "json", bytes |-> <<>>,
                             width |-> exposed.width,
                             height |-> exposed.height,
                             online |-> BoolText(exposed.online)]])

\* The ADD_HEADER calls of _http_callback_snapshot, in order.
SnapshotHeaders ==
    << <<"Access-Control-Allow-Origin:", "*">>,
       <<"Cache-Control", "no-store, no-cache, must-revalidate, pre-check=0, post-check=0, max-age=0">>,
       <<"Pragma", "no-cache">>,
       <<"Expires", "Mon, 3 Jan 2000 12:34:56 GMT">>,
       <<"X-Timestamp", "<sec>.<usec>">>,
       <<"Content-Type", "image/jpeg">> >>

\* Mutant: the whole buffer is sent, not only its valid bytes.
SnapshotBodyAllocated(e) == evbuffer_add(e.picture.data, e.picture.allocated)

SnapshotBody(e) == evbuffer_add(e.picture.data, e.picture.size)

_http_callback_snapshot(method) ==
    /\ pc = "idle"
    /\ IF PROCESS_HEAD_REQUEST(method)
       THEN Reply(HeadReply)
       ELSE Reply([status |-> HTTP_OK, reason |-> "OK",
                   headers |-> SnapshotHeaders,
                   body |-> [EmptyBody EXCEPT !.type = "jpeg",
                                              !.bytes = SnapshotBody(exposed)]])

\* The reply has been handed to the transport; the callback has returned.
ReplySent ==
    /\ pc = "replied"
    /\ pc' = "idle"
    /\ response' = NoResponse
    /\ UNCHANGED <<stream, mutex, exposed, stream_clients, clients, unlocked,
                   adopted, fresh>>

(* --------------------------- stream clients ---------------------------- *)

RECURSIVE LastFrom(_, _, _)
\* for (; last->next != NULL; last = last->next);
LastFrom(cl, c, fuel) ==
    IF cl[c].next = NULL \/ fuel = 0 THEN c ELSE LastFrom(cl, cl[c].next, fuel - 1)

\* The list insertion of _http_callback_stream for the new record c.
Attach(cl, head, c) ==
    LET new == [alive |-> TRUE, need_initial |-> TRUE, prev |-> NULL,
                next |-> NULL, conn |-> TRUE, write_cb |-> FALSE, out |-> <<>>,
                preambles |-> 0]
    IN IF head = NULL
       THEN [head |-> c, clients |-> [cl EXCEPT ![c] = new]]
       ELSE LET last == LastFrom(cl, head, Records(cl))
            IN [head |-> head,
                clients |-> [cl EXCEPT ![c] = [new EXCEPT !.prev = last],
                                       ![last].next = c]]

\* A_CALLOC(client, 1) yields any record that is not in use; with MaxClients
\* records in use no further client is admitted.
_http_callback_stream(method, has_conn) ==
    /\ pc = "idle"
    /\ IF PROCESS_HEAD_REQUEST(method)
       THEN Reply(HeadReply)
       ELSE IF has_conn
            THEN \E c \in DOMAIN clients :
                    /\ ~clients[c].alive
                    /\ LET a == Attach(clients, stream_clients, c)
                       IN /\ stream_clients' = a.head
                          /\ clients' = a.clients
                    /\ UNCHANGED <<stream, mutex, exposed, pc, response,
                                   unlocked, adopted, fresh>>
            ELSE UNCHANGED vars

\* bufferevent_write_buffer(buf_event, buf): the content of buf is moved to
\* the end of the output, and buf is left empty.
bufferevent_write_buffer(out, buf) == [out |-> out \o buf, buf |-> <<>>]

Preamble == [kind |-> "preamble", length |-> 0, jpeg |-> <<>>]

\* Mutant: Content-Length is taken from the capacity of the buffer.
PartLengthAllocated(e) ==
    [kind |-> "part",
     length |-> e.picture.allocated * SizeofData,
     jpeg |-> evbuffer_add(e.picture.data, e.picture.size * SizeofData)]

\* One multipart part: its Content-Length value and the bytes that follow.
Part(e) ==
    [kind |-> "part",
     length |-> e.picture.size * SizeofData,
     jpeg |-> evbuffer_add(e.picture.data, e.picture.size * SizeofData)]

\* Mutant: need_initial is left as it is.
KeepInitial(n) == n

ClearInitial(n) == FALSE

\* Mutant: the write callback stays registered.
StayArmed(w) == w

\* bufferevent_setcb(buf_event, NULL, NULL, _http_callback_stream_error, ...)
DisarmWrite(w) == FALSE

_http_callback_stream_write(c) ==
    /\ pc = "idle"
    /\ clients[c].alive
    /\ clients[c].write_cb
    /\ LET cl == clients[c]
           first == IF cl.need_initial
                    THEN bufferevent_write_buffer(<<>>, <<Preamble>>)
                    ELSE [out |-> <<>>, buf |-> <<>>]
           initial == IF cl.need_initial
                      THEN ClearInitial(cl.need_initial)
                      ELSE cl.need_initial
           second == bufferevent_write_buffer(first.out,
                                              Append(first.buf, Part(exposed)))
       IN clients' = [clients EXCEPT ![c].need_initial = initial,
                                     ![c].out = second.out,
                                     ![c].preambles =
                                         IF cl.need_initial THEN @ + 1 ELSE @,
                                     ![c].write_cb = DisarmWrite(@)]
    /\ UNCHANGED <<stream, mutex, exposed, stream_clients, pc, response,
                   unlocked, adopted, fresh>>

\* Mutant: the connection is freed but the record stays linked.
KeepLinked(cl, head, c) ==
    [head |-> head, clients |-> [cl EXCEPT ![c].conn = FALSE]]

\* Mutant: the head of the list is not moved to the successor.
DetachKeepsHead(cl, head, c) ==
    LET p == cl[c].prev
        n == cl[c].next
        cl1 == IF p = NULL THEN cl ELSE [cl EXCEPT ![p].next = n]
        cl2 == IF n /= NULL THEN [cl1 EXCEPT ![n].prev = p] ELSE cl1
    IN [head |-> head, clients |-> [cl2 EXCEPT ![c] = NoClient]]

\* Mutant: the successor's prev pointer is not updated.
DetachForwardOnly(cl, head, c) ==
    LET p == cl[c].prev
        n == cl[c].next
        cl1 == IF p = NULL THEN cl ELSE [cl EXCEPT ![p].next = n]
    IN [head |-> IF p = NULL THEN n ELSE head,
        clients |-> [cl1 EXCEPT ![c] = NoClient]]

\* The unlink and free of _http_callback_stream_error.
Detach(cl, head, c) ==
    LET p == cl[c].prev
        n == cl[c].next
        cl1 == IF p = NULL THEN cl ELSE [cl EXCEPT ![p].next = n]
        cl2 == IF n /= NULL THEN [cl1 EXCEPT ![n].prev = p] ELSE cl1
    IN [head |-> IF p = NULL THEN n ELSE head,
        clients |-> [cl2 EXCEPT ![c] = NoClient]]

_http_callback_stream_error(c) ==
    /\ pc = "idle"
    /\ clients[c].alive
    /\ LET d == Detach(clients, stream_clients, c)
       IN /\ stream_clients' = d.head
          /\ clients' = d.clients
    /\ UNCHANGED <<stream, mutex, exposed, pc, response, unlocked, adopted,
                   fresh>>

(* ------------------------------ lifecycle ------------------------------ *)

\* event_base_loopbreak: the loop returns after the running callback.
http_server_loop_break ==
    /\ pc = "idle"
    /\ pc' = "stopped"
    /\ UNCHANGED <<stream, mutex, exposed, stream_clients, clients, response,
                   unlocked, adopted, fresh>>

\* evhttp_free() closes every connection; exposed, run and server are freed
\* (the freed snapshot and list head are shown zeroed).  No stream_client_t
\* is freed.
http_server_destroy ==
    /\ pc = "stopped"
    /\ pc' = "destroyed"
    /\ clients' = [c \in DOMAIN clients |->
                     [clients[c] EXCEPT !.conn = FALSE, !.write_cb = FALSE]]
    /\ exposed' = CallocExposed
    /\ stream_clients' = NULL
    /\ UNCHANGED <<stream, mutex, response, unlocked, adopted, fresh>>

(* ---------------------------- specification ---------------------------- *)

Next ==
    \/ (\E p \in Publications : ProducerPublish(p)) /\ UNCHANGED history
    \/ refresh_check /\ UNCHANGED history
    \/ refresh_lock /\ UNCHANGED history
    \/ refresh_locked /\ UNCHANGED history
    \/ refresh_blank /\ UNCHANGED history
    \/ refresh_queue /\ UNCHANGED history
    \/ (\E m \in Methods : _http_callback_root(m)) /\ UNCHANGED history
    \/ (\E m \in Methods : _http_callback_ping(m)) /\ UNCHANGED history
    \/ (\E m \in Methods : _http_callback_snapshot(m)) /\ UNCHANGED history
    \/ ReplySent /\ UNCHANGED history
    \/ (\E m \in Methods, h \in BOOLEAN : _http_callback_stream(m, h)) /\ UNCHANGED history
    \/ (\E c \in ClientIds : _http_callback_stream_write(c)) /\ UNCHANGED history
    \/ (\E c \in ClientIds : _http_callback_stream_error(c)) /\ UNCHANGED history
    \/ http_server_loop_break /\ UNCHANGED history
    \/ http_server_destroy /\ UNCHANGED history

Spec == Init /\ [][Next]_vars

(* ------------------- the client list and the writer -------------------- *)

\* Where client c stands in the list.
Place(cl, c) ==
    IF cl[c].prev = NULL
    THEN IF cl[c].next = NULL THEN "only" ELSE "head"
    ELSE IF cl[c].next = NULL THEN "tail" ELSE "middle"

\* The error callback, with a record of the state the client was in.
ErrorRecorded(c) ==
    /\ _http_callback_stream_error(c)
    /\ last_error' = [place |-> Place(clients, c),
                      early |-> clients[c].write_cb /\ clients[c].need_initial]
    /\ UNCHANGED <<fanouts, parts, ticks>>

InitClients ==
    /\ stream = StreamInit
    /\ mutex = "free"
    /\ exposed = _expose_blank_picture(CallocExposed)
    /\ stream_clients = NULL
    /\ clients = [c \in RegistryIds |-> NoClient]
    /\ pc = "idle"
    /\ response = NoResponse
    /\ unlocked = {}
    /\ adopted = -1
    /\ fresh = "none"
    /\ last_error = NoError
    /\ fanouts = [c \in RegistryIds |-> 0]
    /\ parts = [c \in RegistryIds |-> 0]
    /\ ticks = 0

\* The producer never publishes and no one-shot request arrives: clients
\* attach, are armed by the keep-alive fanout, are written to and fail.
NextClients ==
    \/ (\E h \in BOOLEAN : _http_callback_stream("GET", h)) /\ UNCHANGED history
    \/ refresh_check /\ UNCHANGED history
    \/ (\E c \in RegistryIds : _http_callback_stream_write(c)) /\ UNCHANGED history
    \/ \E c \in RegistryIds : ErrorRecorded(c)

SpecClients == InitClients /\ [][NextClients]_vars

(* ------------------- a producer that never publishes ------------------- *)

NextIdle ==
    \/ (\E h \in BOOLEAN : _http_callback_stream("GET", h)) /\ UNCHANGED history
    \/ refresh_check /\ UNCHANGED history
    \/ (\E c \in RegistryIds : _http_callback_stream_write(c)) /\ UNCHANGED history
    \/ (\E c \in RegistryIds : _http_callback_stream_error(c)) /\ UNCHANGED history

\* The refresh timer is persistent (EV_PERSIST) and the loop dispatches it
\* every interval; a transport that keeps draining makes an armed write
\* callback run.
FairIdle ==
    /\ WF_vars(refresh_check /\ UNCHANGED history)
    /\ \A c \in RegistryIds :
          WF_vars(_http_callback_stream_write(c) /\ UNCHANGED history)

SpecIdle == InitClients /\ [][NextIdle]_vars /\ FairIdle

(* --------------------- fanouts and parts, counted ---------------------- *)

\* A tick (the producer never publishes: the keep-alive fanout), counted for
\* every client of the list.
FanoutCounted ==
    /\ \A c \in ClientIds : fanouts[c] < MaxFanouts
    /\ refresh_check
    /\ fanouts' = [c \in ClientIds |->
                      IF c \in ReachFrom(clients, stream_clients, Records(clients))
                      THEN fanouts[c] + 1 ELSE fanouts[c]]
    /\ UNCHANGED <<last_error, parts, ticks>>

WriteCounted(c) ==
    /\ _http_callback_stream_write(c)
    /\ parts' = [parts EXCEPT ![c] = @ + 1]
    /\ UNCHANGED <<last_error, fanouts, ticks>>

\* The counts are those of the client, not of its record.
ErrorCounted(c) ==
    /\ _http_callback_stream_error(c)
    /\ fanouts' = [fanouts EXCEPT ![c] = 0]
    /\ parts' = [parts EXCEPT ![c] = 0]
    /\ UNCHANGED <<last_error, ticks>>

NextCounted ==
    \/ (\E h \in BOOLEAN : _http_callback_stream("GET", h)) /\ UNCHANGED history
    \/ FanoutCounted
    \/ \E c \in ClientIds : WriteCounted(c)
    \/ \E c \in ClientIds : ErrorCounted(c)

SpecCounted == Init /\ [][NextCounted]_vars

(* ---------------------- the producer and the ticker -------------------- *)

\* No client streams: the producer publishes, the timer fires and the
\* one-shot requests are served.
NextSnapshot ==
    \/ (\E p \in Publications : ProducerPublish(p)) /\ UNCHANGED history
    \/ refresh_check /\ UNCHANGED history
    \/ refresh_lock /\ UNCHANGED history
    \/ refresh_locked /\ UNCHANGED history
    \/ refresh_blank /\ UNCHANGED history
    \/ refresh_queue /\ UNCHANGED history
    \/ (\E m \in Methods : _http_callback_root(m)) /\ UNCHANGED history
    \/ (\E m \in Methods : _http_callback_ping(m)) /\ UNCHANGED history
    \/ (\E m \in Methods : _http_callback_snapshot(m)) /\ UNCHANGED history
    \/ ReplySent /\ UNCHANGED history

SpecSnapshot == Init /\ [][NextSnapshot]_vars

(* ------------------ the producer, the ticker and /stream --------------- *)

NextTicks ==
    \/ (\E p \in Publications : ProducerPublish(p)) /\ UNCHANGED history
    \/ refresh_check /\ UNCHANGED history
    \/ refresh_lock /\ UNCHANGED history
    \/ refresh_locked /\ UNCHANGED history
    \/ refresh_blank /\ UNCHANGED history
    \/ refresh_queue /\ UNCHANGED history
    \/ (\E h \in BOOLEAN : _http_callback_stream("GET", h)) /\ UNCHANGED history
    \/ (\E c \in ClientIds : _http_callback_stream_write(c)) /\ UNCHANGED history
    \/ (\E c \in ClientIds : _http_callback_stream_error(c)) /\ UNCHANGED history

SpecTicks == Init /\ [][NextTicks]_vars

\* The timer fires: every firing is seen in ticks, also one that finds
\* nothing to do.
TimerFires ==
    /\ refresh_check
    /\ ticks' = 1 - ticks
    /\ UNCHANGED <<last_error, fanouts, parts>>

NextStream ==
    \/ (\E p \in Publications : ProducerPublish(p)) /\ UNCHANGED history
    \/ TimerFires
    \/ refresh_lock /\ UNCHANGED history
    \/ refresh_locked /\ UNCHANGED history
    \/ refresh_blank /\ UNCHANGED history
    \/ refresh_queue /\ UNCHANGED history
    \/ (\E h \in BOOLEAN : _http_callback_stream("GET", h)) /\ UNCHANGED history
    \/ (\E c \in ClientIds : _http_callback_stream_write(c)) /\ UNCHANGED history
    \/ (\E c \in ClientIds : _http_callback_stream_error(c)) /\ UNCHANGED history

\* The loop dispatches the persistent timer and every armed write callback
\* again and again, and a callback that has started runs to its end; the
\* producer and the clients are free to do nothing.
FairStream ==
    /\ SF_vars(TimerFires)
    /\ WF_vars(refresh_lock /\ UNCHANGED history)
    /\ WF_vars(refresh_locked /\ UNCHANGED history)
    /\ WF_vars(refresh_blank /\ UNCHANGED history)
    /\ WF_vars(refresh_queue /\ UNCHANGED history)
    /\ \A c \in ClientIds :
          SF_vars(_http_callback_stream_write(c) /\ UNCHANGED history)

SpecStream == Init /\ [][NextStream]_vars /\ FairStream

(* ------------------------------- claims -------------------------------- *)

\* The event-loop thread is between callbacks, or has just replied.
LoopAtRest == pc \in {"idle", "replied", "stopped"}

\* The clients reachable from the head of the list by next pointers.
Registry == ReachFrom(clients, stream_clients, Records(clients))

\* The valid bytes of a picture.
Bytes(pic) == SubSeq(pic.data, 1, pic.size)

\* C1: the event-loop thread touches a field of the stream slot only while it
\* holds the stream mutex.
C1_SlotOnlyUnderMutex == unlocked = {}

\* C2: a client needs the preamble exactly until its first write; the first
\* write emits the preamble and then one part, every later write emits one
\* part and no preamble, so that exactly one preamble was written to every
\* client that was written to, and need_initial is false from then on.
C2_PreambleOnce ==
    \A c \in ClientIds :
        clients[c].alive =>
            /\ clients[c].need_initial <=> clients[c].out = <<>>
            /\ clients[c].need_initial <=> clients[c].preambles = 0
            /\ ~clients[c].need_initial <=> clients[c].preambles = 1
            /\ clients[c].out /= <<>> =>
                  /\ clients[c].out[Len(clients[c].out)].kind = "part"
                  /\ Len(clients[c].out) \in {1, 2}
                  /\ Len(clients[c].out) = 2 =>
                        clients[c].out[1].kind = "preamble"

\* A client wrote twice: its last write carried a part and no preamble.
C2_Witness ==
    \E c \in ClientIds :
        /\ clients[c].alive
        /\ Len(clients[c].out) = 1
        /\ clients[c].out[1].kind = "part"

\* C3: every part carries as Content-Length the number of JPEG bytes that
\* follow, and these are the valid bytes of the exposed picture as it is when
\* the write callback runs: between callbacks, a client whose write has run
\* since it was last armed holds the picture that is exposed now, whatever
\* was exposed when it was first armed.
C3_PartWellFormed ==
    \A c \in ClientIds :
        /\ \A i \in 1..Len(clients[c].out) :
              clients[c].out[i].kind = "part" =>
                  clients[c].out[i].length = Len(clients[c].out[i].jpeg)
        /\ (LoopAtRest /\ clients[c].alive /\ ~clients[c].write_cb
                /\ clients[c].out /= <<>>) =>
              LET part == clients[c].out[Len(clients[c].out)]
              IN /\ part.length = exposed.picture.size
                 /\ part.jpeg = Bytes(exposed.picture)

\* Client c was attached before d.  d wrote a picture that is no longer the
\* exposed one, so c was armed by the fanout of that older picture too; its
\* first write came only after the picture changed and carries the new one.
C3_Witness ==
    \E c, d \in ClientIds :
        /\ pc = "idle"
        /\ clients[c].alive /\ clients[d].alive
        /\ clients[c].next = d
        /\ clients[c].out = <<Preamble, Part(exposed)>>
        /\ clients[d].out /= <<>>
        /\ clients[d].out[Len(clients[d].out)] /= Part(exposed)
        /\ exposed.picture.size < exposed.picture.allocated

\* C4: between ticks, exposed.online is false iff no tick has taken a frame
\* yet or the last frame a tick took was empty.
C4_OnlineIffLastFrameNonEmpty ==
    LoopAtRest => (~exposed.online <=> adopted \in {-1, 0})

\* The producer went offline after a three-byte picture had been adopted.
C4_Witness ==
    /\ pc = "idle"
    /\ adopted = 0
    /\ ~exposed.online
    /\ exposed.picture.allocated = 3

\* C5: whenever the snapshot is offline it is the blank JPEG: bytes, size,
\* width and height.
C5_OfflineIsBlank ==
    (pc /= "destroyed" /\ ~exposed.online) =>
        /\ exposed.picture.size = BLANK_JPG_SIZE
        /\ Bytes(exposed.picture) = BLANK_JPG_DATA
        /\ exposed.width = BLANK_JPG_WIDTH
        /\ exposed.height = BLANK_JPG_HEIGHT

\* The blank picture overwrote an adopted one in a larger buffer.
C5_Witness ==
    /\ pc = "idle"
    /\ ~exposed.online
    /\ exposed.picture.data = <<8, 9, 4>>

\* C6: /ping and /snapshot reply with the exposed snapshot as it is when the
\* handler runs; once a tick that started after the last publication has
\* ended, that is the published frame (if it has bytes).
C6_RepliesShowSnapshot ==
    pc = "replied" =>
        /\ response.body.type = "json" =>
              /\ response.body.width = exposed.width
              /\ response.body.height = exposed.height
              /\ response.body.online = "true" <=> exposed.online
              /\ response.body.online = "false" <=> ~exposed.online
        /\ response.body.type = "jpeg" =>
              response.body.bytes = Bytes(exposed.picture)
        /\ (fresh = "ticked" /\ stream.picture.size > 0) =>
              /\ response.body.type = "json" =>
                    /\ response.body.online = "true"
                    /\ response.body.width = stream.width
                    /\ response.body.height = stream.height
              /\ response.body.type = "jpeg" =>
                    /\ response.body.bytes = stream.picture.data
                    /\ Len(response.body.bytes) = stream.picture.size

\* /snapshot served a one-byte frame out of a three-byte buffer.
C6_Witness ==
    /\ pc = "replied"
    /\ fresh = "ticked"
    /\ response.body.type = "jpeg"
    /\ response.body.bytes = <<1>>
    /\ exposed.picture.allocated = 3

\* The headers the /snapshot reply is specified to carry.
SnapshotHeadersSpecified ==
    { <<"Access-Control-Allow-Origin", "*">>,
      <<"Cache-Control", "no-store, no-cache, must-revalidate, pre-check=0, post-check=0, max-age=0">>,
      <<"Pragma", "no-cache">>,
      <<"Expires", "Mon, 3 Jan 2000 12:34:56 GMT">>,
      <<"X-Timestamp", "<sec>.<usec>">>,
      <<"Content-Type", "image/jpeg">> }

\* C7: a GET /snapshot reply carries exactly the specified header names and
\* values.
C7_SnapshotHeaders ==
    (pc = "replied" /\ response.body.type = "jpeg") =>
        {response.headers[i] : i \in 1..Len(response.headers)}
            = SnapshotHeadersSpecified

\* A HEAD request is dispatched to one of the four handlers.
HeadRequest ==
    \/ _http_callback_root("HEAD")
    \/ _http_callback_ping("HEAD")
    \/ _http_callback_snapshot("HEAD")
    \/ \E h \in BOOLEAN : _http_callback_stream("HEAD", h)

\* The reply to a HEAD request and what the request leaves unchanged.
C8_Step ==
    HeadRequest =>
        /\ response'.status = 200
        /\ response'.reason = "OK"
        /\ response'.body = EmptyBody
        /\ \A i \in 1..Len(response'.headers) :
              response'.headers[i][1] /= "Content-Type"
        /\ UNCHANGED <<stream, mutex, exposed, stream_clients, clients>>

\* C8: a HEAD request on any route is answered 200 OK with no body and no
\* Content-Type header, and changes nothing of the server: no client is
\* created.
C8_HeadChangesNothing == [][C8_Step]_vars

\* A HEAD request was answered while a client was streaming.
C8_Witness ==
    /\ pc = "replied"
    /\ response.status = 200
    /\ response.headers = <<>>
    /\ response.body = EmptyBody
    /\ stream_clients /= NULL

\* C9: while the server exists, a client is in the registry iff its
\* connection is attached.
C9_RegisteredIffConnected ==
    pc /= "destroyed" =>
        \A c \in ClientIds : c \in Registry <=> clients[c].conn

\* The first of two clients was detached; the second one heads the list.
C9_Witness ==
    /\ stream_clients = 2
    /\ ~clients[1].alive
    /\ clients[2].conn
    /\ clients[2].out /= <<>>

\* C10: after destroy() no client record remains allocated.
C10_DestroyReleasesClients ==
    pc = "destroyed" => \A c \in ClientIds : ~clients[c].alive

RECURSIVE WalkFrom(_, _, _)
WalkFrom(cl, c, fuel) ==
    IF c = NULL \/ fuel = 0 THEN <<>> ELSE <<c>> \o WalkFrom(cl, cl[c].next, fuel - 1)

\* The list as the fanout walks it; the walk is cut one step after the
\* number of records, so that a cycle shows as a repetition.
Walk == WalkFrom(clients, stream_clients, Records(clients) + 1)

\* Every next pointer is answered by the prev pointer and the other way round.
LinksConsistent ==
    /\ stream_clients /= NULL => clients[stream_clients].prev = NULL
    /\ \A c \in DOMAIN clients :
          clients[c].alive =>
              /\ clients[c].next /= NULL => clients[clients[c].next].prev = c
              /\ clients[c].prev /= NULL => clients[clients[c].prev].next = c
              /\ clients[c].prev = NULL => stream_clients = c

ListOk ==
    /\ {Walk[i] : i \in 1..Len(Walk)} = {c \in DOMAIN clients : clients[c].alive}
    /\ \A i, j \in 1..Len(Walk) : Walk[i] = Walk[j] => i = j
    /\ LinksConsistent

\* A detach takes out the one client and keeps the others, in their order;
\* an attach adds the one client at the end.
C11_Step ==
    /\ \A c \in DOMAIN clients :
          _http_callback_stream_error(c) =>
              /\ c \in Registry
              /\ Walk' = SelectSeq(Walk, LAMBDA d : d /= c)
    /\ \A h \in BOOLEAN :
          (_http_callback_stream("GET", h) /\ clients' /= clients) =>
              \E c \in DOMAIN clients : c \notin Registry /\ Walk' = Append(Walk, c)

\* C11: the clients reachable from the head of the list by next pointers are
\* exactly the clients attached and not yet detached, each once, with prev
\* and next pointers answering each other; a detach of the head, of a middle
\* or of the last element leaves the others in the list.
C11_ListIntegrity == []ListOk /\ [][C11_Step]_vars

\* A client was detached from the middle of the list; its two neighbours are
\* linked to each other.
C11_Witness ==
    /\ last_error.place = "middle"
    /\ Len(Walk) = 2
    /\ clients[Walk[1]].next = Walk[2]
    /\ clients[Walk[2]].prev = Walk[1]

\* The part that carries the blank JPEG.
BlankPart ==
    [kind |-> "part", length |-> BLANK_JPG_SIZE, jpeg |-> BLANK_JPG_DATA]

\* What was written is the preamble and blank parts only.
C12_Written ==
    \A c \in RegistryIds :
        \A i \in 1..Len(clients[c].out) :
            clients[c].out[i] \in {Preamble, BlankPart}

\* Every tick arms every client of the list.
C12_Tick == refresh_check => \A c \in Registry : clients'[c].write_cb

\* C12: if the producer never publishes, every tick fans out, and a client
\* that stays connected is sent the preamble and then, again and again
\* without end, a part with the blank JPEG.
C12_BlankPartsForever ==
    /\ []C12_Written
    /\ [][C12_Tick]_vars
    /\ \A c \in RegistryIds :
          <>[](clients[c].conn) =>
              /\ <>(clients[c].out = <<Preamble, BlankPart>>)
              /\ []<>(clients[c].write_cb)
              /\ []<>(~clients[c].write_cb /\ clients[c].out = <<BlankPart>>)

\* A client was written the preamble and a blank part, then a blank part
\* alone, and is armed for the next one.
C12_Witness ==
    \E c \in RegistryIds :
        /\ clients[c].conn
        /\ clients[c].preambles = 1
        /\ clients[c].out = <<BlankPart>>
        /\ clients[c].write_cb

\* What a client was written first is the preamble and the picture that was
\* exposed at that write, not an older one.
C13_NoOlderFrame ==
    \A c \in ClientIds :
        (pc = "idle" /\ clients[c].alive /\ ~clients[c].write_cb
             /\ Len(clients[c].out) = 2) =>
            clients[c].out = <<Preamble, Part(exposed)>>

\* C13: a client that attaches and stays connected is written the preamble
\* and a part with the frame of a tick after the attach, never an older
\* frame, whatever the producer does after the attach.
C13_AttachedIsServed ==
    /\ []C13_NoOlderFrame
    /\ \A c \in ClientIds :
          [](clients[c].conn => <>(~clients[c].conn \/ clients[c].out /= <<>>))

RECURSIVE Blankify(_, _)
\* n calls of _expose_blank_picture in a row.
Blankify(n, e) == IF n = 0 THEN e ELSE _expose_blank_picture(Blankify(n - 1, e))

\* "already blank": offline, and the size is the length of the blank JPEG.
AlreadyBlank(e) == ~e.online /\ e.picture.size = BLANK_JPG_SIZE

\* C14: from the snapshot as allocated and from every snapshot the server
\* reaches, n >= 1 calls of _expose_blank_picture in a row give the same
\* bytes, size, allocated, width, height and online as one call; one call
\* leaves the snapshot already blank, and a call on a snapshot that is
\* already blank changes nothing.
C14_BlankifyIdempotent ==
    \A e \in {exposed, CallocExposed} :
        LET once == _expose_blank_picture(e)
        IN /\ \A n \in 1..MaxCalls : Blankify(n, e) = once
           /\ AlreadyBlank(once)
           /\ AlreadyBlank(e) => once = e

\* The tick has just called _expose_blank_picture for an empty frame; the
\* buffer had held a three-byte picture.
C14_Witness ==
    /\ pc = "queue"
    /\ adopted = 0
    /\ AlreadyBlank(exposed)
    /\ exposed.picture.allocated = 3
    /\ _expose_blank_picture(exposed) = exposed

\* The buffer has allocated bytes (a copy of more would have run over its
\* end) and its valid bytes fit.
C15_Fits ==
    /\ exposed.picture.size <= exposed.picture.allocated
    /\ Len(exposed.picture.data) = exposed.picture.allocated

\* The capacity of the buffer does not go down.
C15_Grows == exposed'.picture.allocated >= exposed.picture.allocated

\* C15: with a producer that keeps size <= allocated, the exposed picture
\* has size <= allocated after init and after every adopt and blankify, no
\* copy writes past the allocated bytes, and allocated never decreases.
C15_SizeWithinAllocated == []C15_Fits /\ [][C15_Grows]_vars

\* A one-byte frame was adopted into the buffer that a three-byte frame had
\* grown.
C15_Witness ==
    /\ pc = "queue"
    /\ exposed.online
    /\ exposed.picture.size = 1
    /\ exposed.picture.allocated = 3
    /\ stream.picture.allocated = 1

\* No client got more parts than fanouts came by it; an armed client has a
\* fanout that no part has answered yet.
C16_Counts ==
    \A c \in ClientIds :
        /\ parts[c] <= fanouts[c]
        /\ clients[c].write_cb => parts[c] < fanouts[c]

\* A write emits one part, the picture exposed now, and disarms the client;
\* a fanout arms the client and queues nothing, armed or not.
C16_Step ==
    \A c \in ClientIds :
        /\ _http_callback_stream_write(c) =>
              /\ ~clients'[c].write_cb
              /\ clients'[c].out[Len(clients'[c].out)] = Part(exposed)
              /\ Cardinality({i \in 1..Len(clients'[c].out) :
                                  clients'[c].out[i].kind = "part"}) = 1
        /\ (refresh_check /\ clients[c].conn) =>
              /\ clients'[c].write_cb
              /\ clients'[c].out = clients[c].out

Armed ==
    [c \in DOMAIN clients |->
        IF c \in Registry THEN [clients[c] EXCEPT !.write_cb = TRUE]
        ELSE clients[c]]

\* The tick from its first step to its end: the fanout is the last step of
\* a tick that found updated set, and the only step of a tick that found it
\* clear and the snapshot offline; no other step arms a client.
C17_Step ==
    /\ (refresh_check /\ ~stream.updated /\ exposed.online) =>
          /\ pc' = "idle"
          /\ UNCHANGED <<exposed, stream, mutex, clients, stream_clients>>
    /\ (refresh_check /\ ~stream.updated /\ ~exposed.online) =>
          /\ pc' = "idle"
          /\ clients' = Armed
          /\ UNCHANGED <<exposed, stream, mutex, stream_clients>>
    /\ (refresh_check /\ stream.updated) =>
          /\ pc' = "lock"
          /\ UNCHANGED <<exposed, stream, mutex, clients, stream_clients>>
    /\ (pc \in {"lock", "locked", "blank"} /\ pc' /= pc) =>
          /\ pc' \in {"locked", "blank", "queue"}
          /\ UNCHANGED <<clients, stream_clients>>
    /\ refresh_queue =>
          /\ pc' = "idle"
          /\ clients' = Armed
          /\ UNCHANGED <<exposed, stream, mutex, stream_clients>>
    /\ (\E c \in DOMAIN clients : ~clients[c].write_cb /\ clients'[c].write_cb) =>
          \/ refresh_queue
          \/ refresh_check /\ ~stream.updated /\ ~exposed.online

\* C17: a tick fans out, arming every client of the list, iff it found
\* stream.updated set or the snapshot offline; a tick that finds updated
\* clear and the snapshot online changes neither the snapshot, nor the
\* stream slot, nor the armed state of any client.
C17_FanoutIffUpdatedOrOffline == [][C17_Step]_vars

\* No frame was ever taken, and the keep-alive fanout has armed two clients.
C17_Witness ==
    /\ pc = "idle"
    /\ adopted = -1
    /\ ~exposed.online
    /\ Cardinality(Registry) = 2
    /\ \A c \in Registry : clients[c].write_cb

\* The loop thread holds the mutex exactly between LOCK_STREAM and
\* UNLOCK_STREAM: not in a write or error callback, not in the fanout, not
\* in _expose_blank_picture; it does not wait for it while it holds it.
C18_Held ==
    /\ mutex = "loop" <=> pc = "locked"
    /\ pc = "lock" => mutex = "free"

\* The tick takes the mutex once and gives it back once, with updated
\* cleared, before it calls _expose_blank_picture or the fanout.
C18_Step ==
    /\ (mutex = "free" /\ mutex' = "loop") => (pc = "lock" /\ pc' = "locked")
    /\ (mutex = "loop" /\ mutex' = "free") =>
          /\ ~stream'.updated
          /\ pc' \in {"queue", "blank"}
    /\ pc = "locked" => mutex' = "free"
    /\ (pc \in {"blank", "queue"} /\ pc' /= pc) => UNCHANGED mutex

\* C18: a tick that takes the stream mutex gives it back exactly once
\* before it returns, with updated false at the release; the mutex is held
\* only around the adopt copy, never during blankify, fanout, or a write or
\* error callback.
C18_MutexAroundAdopt == []C18_Held /\ [][C18_Step]_vars

\* The mutex was released for an empty frame; _expose_blank_picture has not
\* run yet, a client is waiting for its write callback.
C18_Witness ==
    /\ pc = "blank"
    /\ mutex = "free"
    /\ ~stream.updated
    /\ exposed.online
    /\ \E c \in ClientIds : clients[c].write_cb

\* A released record has no connection and no callback, and neither the
\* head of the list nor a live record points to it.
C19_Released ==
    \A c \in DOMAIN clients :
        ~clients[c].alive =>
            /\ clients[c] = NoClient
            /\ stream_clients /= c
            /\ \A d \in DOMAIN clients :
                  clients[d].alive => (clients[d].next /= c /\ clients[d].prev /= c)

\* The error callback runs for a live client and releases it in one step; a
\* write callback runs for a live, connected client only, and a fanout arms
\* no released record.
C19_Step ==
    \A c \in DOMAIN clients :
        /\ _http_callback_stream_error(c) =>
              /\ clients[c].alive
              /\ clients'[c] = NoClient
              /\ c \notin Registry'
        /\ _http_callback_stream_write(c) => (clients[c].alive /\ clients[c].conn)
        /\ (~clients[c].alive /\ ~clients'[c].alive) => clients'[c] = clients[c]

\* C19: the error callback frees the connection, unlinks the client and
\* releases its record in one step, once per client; afterwards no write
\* callback, fanout or error callback touches the record, also when the
\* error came before the first write or while a write was armed.
C19_ErrorPathOnce == []C19_Released /\ [][C19_Step]_vars

\* The error came for the head of the list while its first write was armed;
\* the two other clients are still served.
C19_Witness ==
    /\ last_error.early
    /\ last_error.place = "head"
    /\ Cardinality(Registry) = 2
    /\ \A c \in Registry : clients[c].out /= <<>>
    /\ \E c \in DOMAIN clients : clients[c] = NoClient

\* The valid bytes, the size and the resolution of the snapshot are those
\* of one publication.
C20_OnePublication ==
    exposed.online =>
        \E p \in Publications :
            /\ Bytes(exposed.picture) = p.data
            /\ exposed.picture.size = Len(p.data)
            /\ exposed.width = p.width
            /\ exposed.height = p.height

\* A publication leaves the snapshot as it is; the snapshot changes only in
\* the tick, under the mutex (adopt) or right after its release (blankify).
C20_Step ==
    /\ (\E p \in Publications : ProducerPublish(p)) => exposed' = exposed
    /\ exposed' /= exposed =>
          \/ pc = "locked" /\ mutex = "loop" /\ exposed' = _expose_new_picture(exposed, stream)
          \/ pc = "blank" /\ exposed' = _expose_blank_picture(exposed)

\* C20: whenever the snapshot is online its bytes, size, width and height
\* come from one single publication; a publication made after the tick
\* released the mutex does not change the snapshot before a later tick, and
\* only init and the ticks modify the snapshot.
C20_SnapshotFromOnePublication == []C20_OnePublication /\ [][C20_Step]_vars

\* The producer has published a three-byte frame after a tick adopted a
\* one-byte frame: the snapshot still shows the one-byte frame, in a buffer
\* whose tail holds older bytes.
C20_Witness ==
    /\ pc = "idle"
    /\ exposed.online
    /\ Bytes(exposed.picture) = <<1>>
    /\ exposed.picture.data = <<1, 3, 4>>
    /\ exposed.width = 3
    /\ stream.updated
    /\ stream.picture.data = <<2, 3, 4>>

=============================================================================
